---- MODULE Spec2Model ----
(***************************************************************************)
(* A model of AFluidGrid (Source/FluidSimulation/FluidGrid.{h,cpp}): a 2D  *)
(* "stable fluids" solver driven by the host's per-frame Tick, with a      *)
(* render-thread command that uploads a colour image of the density.       *)
(*                                                                         *)
(* Fields are TArray<float>: here sequences, the element at linear offset  *)
(* k being f[k+1].  A float is modelled as a fixed-point number, an        *)
(* integer count of 1/One; + and - are exact, * and / truncate toward      *)
(* zero (sign-symmetric, as IEEE rounding is).  int32 values are plain     *)
(* integers; ToFloat converts.                                             *)
(***************************************************************************)
EXTENDS Integers, Sequences, FiniteSets, TLC

VARIABLES
    Size,         \* int32 Size (EditAnywhere)
    Density,      \* TArray<float> Density
    Vx,           \* TArray<float> Vx
    Vy,           \* TArray<float> Vy
    Dt,           \* float Dt (EditAnywhere)
    Diffusion,    \* float Diffusion (EditAnywhere)
    Viscosity,    \* float Viscosity (EditAnywhere)
    BaseMaterial, \* UMaterial* BaseMaterial is set
    RenderTarget, \* UTextureRenderTarget2D* RenderTarget is non-null
    pc,           \* the actor's life: constructed, playing, or ended by undefined behaviour
    ticks,        \* number of Tick calls begun
    forced,       \* a caller (HandleInput) has called AddDensity
    trace,        \* the arrays the last StepSimulation passed to its Advect calls
    twin,         \* the fields of solvers that took the same Tick from the same
                  \* state with another Diffusion, by that Diffusion
    renderQueue,  \* render commands enqueued and not yet begun
    rtCmd,        \* the command the render thread is executing, or NoCmd
    texture,      \* what the last finished UpdateTexture2D uploaded
    call          \* a single routine called on its own: its arguments, position and result

solverVars == <<Size, Density, Vx, Vy, Dt, Diffusion, Viscosity>>
hostVars == <<BaseMaterial, RenderTarget, pc, ticks, forced, trace, twin>>
renderVars == <<renderQueue, rtCmd, texture>>
vars == <<Size, Density, Vx, Vy, Dt, Diffusion, Viscosity, BaseMaterial,
          RenderTarget, pc, ticks, forced, trace, twin, renderQueue, rtCmd, texture,
          call>>

\* ------------------------------------------------------------------ bounds

\* Largest grid side the model constructs (the source's default is 256).
MaxN == 4
\* Largest number of Tick calls in a run.
MaxTicks == 2

\* ---------------------------------------------------------- float arithmetic

\* The fixed-point unit: the float 1.0f.
One == 1000
Half == One \div 2

Abs(a) == IF a < 0 THEN -a ELSE a
Sgn(a, b) == IF (a < 0) = (b < 0) THEN 1 ELSE -1

ToFloat(n) == n * One

\* a * b, truncated toward zero; the operands are split so that no
\* intermediate product exceeds the result by more than One*One.
FMul(a, b) ==
    LET ah == Abs(a) \div One
        al == (Abs(a)) % One
        bh == Abs(b) \div One
        bl == (Abs(b)) % One
    IN  Sgn(a, b) * (ah * bh * One + ah * bl + al * bh + (al * bl) \div One)

\* a / b for b # 0, truncated toward zero.
FDiv(a, b) ==
    Sgn(a, b) * (((Abs(a)) \div (Abs(b))) * One + (((Abs(a)) % (Abs(b))) * One) \div (Abs(b)))

\* FMath::Clamp(X, Min, Max)
Clamp(X, Min, Max) == IF X < Min THEN Min ELSE IF X < Max THEN X ELSE Max

\* FMath::FloorToInt(x): a float to the int32 below it.
FloorToInt(x) == x \div One

\* static_cast<int32>(float): truncation toward zero.
CastInt32(x) == IF x < 0 THEN -((-x) \div One) ELSE x \div One

\* TLC evaluates an argument when it is first read.  A loop's operator reads
\* its accumulator on entry (Eval), so that each iteration is computed before
\* the next begins, as in the source.
Eval(v) == v = v

\* ------------------------------------------------------------------ fields

\* int32 IX(int32 x, int32 y) const: the linear offset of cell (x, y).
IX(x, y) == x + y * Size

\* f[IX(x, y)]
At(f, x, y) == f[IX(x, y) + 1]

\* f[IX(x, y)] = v
Put(f, x, y, v) == [f EXCEPT ![IX(x, y) + 1] = v]

\* TArray::SetNumZeroed(n)
Zeroed(n) == [k \in 1..n |-> 0]

\* ------------------------------------------------------------- SetBoundary

\* x[IX(i, 0)] = b == 2 ? -x[IX(i, 1)] : x[IX(i, 1)]
TopEdge(b, x, i) ==
    Put(x, i, 0, IF b = 2 THEN -At(x, i, 1) ELSE At(x, i, 1))

\* x[IX(i, Size - 1)] = b == 2 ? -x[IX(i, Size - 2)] : x[IX(i, Size - 2)]
BottomEdge(b, x, i) ==
    Put(x, i, Size - 1, IF b = 2 THEN -At(x, i, Size - 2) ELSE At(x, i, Size - 2))

\* x[IX(0, j)] = b == 1 ? -x[IX(1, j)] : x[IX(1, j)]
LeftEdge(b, x, j) ==
    Put(x, 0, j, IF b = 1 THEN -At(x, 1, j) ELSE At(x, 1, j))

\* x[IX(Size - 1, j)] = b == 1 ? -x[IX(1, j)] : x[IX(Size - 2, j)]
RightEdge(b, x, j) ==
    Put(x, Size - 1, j, IF b = 1 THEN -At(x, 1, j) ELSE At(x, Size - 2, j))

\* for (i = 1; i < Size - 1; i++): the top and bottom rows, from column i on.
RECURSIVE SetBoundaryRows(_, _, _)
SetBoundaryRows(b, x, i) ==
    IF Eval(x) /\ i < Size - 1
    THEN SetBoundaryRows(b, BottomEdge(b, TopEdge(b, x, i), i), i + 1)
    ELSE x

\* for (j = 1; j < Size - 1; j++): the left and right columns, from row j on.
RECURSIVE SetBoundaryCols(_, _, _)
SetBoundaryCols(b, x, j) ==
    IF Eval(x) /\ j < Size - 1
    THEN SetBoundaryCols(b, RightEdge(b, LeftEdge(b, x, j), j), j + 1)
    ELSE x

\* x[IX(cx, cy)] = 0.5f * (x[IX(ax, ay)] + x[IX(bx, by)])
Corner(x, cx, cy, ax, ay, bx, by) ==
    Put(x, cx, cy, FMul(Half, At(x, ax, ay) + At(x, bx, by)))

\* The four corners, in the source's order.
SetBoundaryCorners(x) ==
    Corner(Corner(Corner(Corner(x,
        0, 0, 1, 0, 0, 1),
        0, Size - 1, 1, Size - 1, 0, Size - 2),
        Size - 1, 0, Size - 2, 0, Size - 1, 1),
        Size - 1, Size - 1, Size - 2, Size - 1, Size - 1, Size - 2)

\* void AFluidGrid::SetBoundary(int32 b, TArray<float>& x)
SetBoundary(b, x) ==
    SetBoundaryCorners(SetBoundaryCols(b, SetBoundaryRows(b, x, 1), 1))

\* ---------------------------------------------------------- interior loops

\* The cells the loops "for (j = 1; j < Size - 1; j++) for (i = 1; i < Size - 1;
\* i++)" visit, in the order they visit them.
InteriorCells ==
    LET n == IF Size > 2 THEN Size - 2 ELSE 0
    IN  [k \in 1..(n * n) |-> <<1 + ((k - 1) % n), 1 + ((k - 1) \div n)>>]

\* ------------------------------------------------------------- LinearSolve

\* x[IX(i, j)] = (x0[IX(i, j)] + a * (x[IX(i + 1, j)] + x[IX(i - 1, j)]
\*                                    + x[IX(i, j + 1)] + x[IX(i, j - 1)])) * cRecip
Relax(x, x0, a, cRecip, i, j) ==
    Put(x, i, j,
        FMul(At(x0, i, j)
               + FMul(a, At(x, i + 1, j) + At(x, i - 1, j)
                           + At(x, i, j + 1) + At(x, i, j - 1)),
             cRecip))

\* The two inner loops from the k-th interior cell on, in place: a cell reads
\* the neighbours the same sweep has already written.
RECURSIVE SweepFrom(_, _, _, _, _)
SweepFrom(x, x0, a, cRecip, k) ==
    IF Eval(x) /\ k <= Len(InteriorCells)
    THEN SweepFrom(Relax(x, x0, a, cRecip, InteriorCells[k][1], InteriorCells[k][2]),
                   x0, a, cRecip, k + 1)
    ELSE x

\* One full interior sweep.
Sweep(x, x0, a, cRecip) == SweepFrom(x, x0, a, cRecip, 1)

\* A LinearSolve that stops one iteration early; C8 must tell it from the source's.
LoopCondOneShort(t) == t < Size - 1

\* for (int32 t = 0; t < Size; t++)
LoopCond(t) == t < Size

RECURSIVE LinearSolveFrom(_, _, _, _, _, _)
LinearSolveFrom(b, x, x0, a, cRecip, t) ==
    IF Eval(x) /\ LoopCond(t)
    THEN LinearSolveFrom(b, SetBoundary(b, Sweep(x, x0, a, cRecip)), x0, a, cRecip, t + 1)
    ELSE x

\* void AFluidGrid::LinearSolve(int32 b, TArray<float>& x, TArray<float>& x0, float a, float c)
LinearSolve(b, x, x0, a, c) == LinearSolveFrom(b, x, x0, a, FDiv(One, c), 0)

\* ----------------------------------------------------------------- Diffuse

\* float a = dt * diff * (Size - 2) * (Size - 2)
DiffuseA(diff, dt) ==
    FMul(FMul(FMul(dt, diff), ToFloat(Size - 2)), ToFloat(Size - 2))

\* LinearSolve(b, x, x0, a, 1 + 4 * a)
DiffuseSolve(b, x, x0, a) == LinearSolve(b, x, x0, a, One + FMul(ToFloat(4), a))

\* void AFluidGrid::Diffuse(int32 b, TArray<float>& x, TArray<float>& x0, float diff, float dt)
Diffuse(b, x, x0, diff, dt) == DiffuseSolve(b, x, x0, DiffuseA(diff, dt))

\* ----------------------------------------------------------------- Project
\* Project's statements, each a map of the four arrays w = [velocX, velocY, p, div].

\* div[IX(i, j)] = (-0.5f * (velocX[..] - velocX[..] + velocY[..] - velocY[..])) / Size;
\* p[IX(i, j)] = 0
ProjectDivergenceCell(w, i, j) ==
    [w EXCEPT !.div = Put(w.div, i, j,
                          FDiv(FMul(-Half,
                                    At(w.velocX, i + 1, j) - At(w.velocX, i - 1, j)
                                      + At(w.velocY, i, j + 1) - At(w.velocY, i, j - 1)),
                               ToFloat(Size))),
              !.p = Put(w.p, i, j, 0)]

\* Project's first pair of loops, from the k-th interior cell on.
RECURSIVE ProjectDivergenceFrom(_, _)
ProjectDivergenceFrom(w, k) ==
    IF Eval(w) /\ k <= Len(InteriorCells)
    THEN ProjectDivergenceFrom(
             ProjectDivergenceCell(w, InteriorCells[k][1], InteriorCells[k][2]), k + 1)
    ELSE w

\* SetBoundary(0, div); SetBoundary(0, p); LinearSolve(0, p, div, 1, 6)
ProjectSolve(w) ==
    [w EXCEPT !.div = SetBoundary(0, w.div),
              !.p = LinearSolve(0, SetBoundary(0, w.p), SetBoundary(0, w.div),
                                ToFloat(1), ToFloat(6))]

\* velocX[IX(i, j)] -= 0.5f * (p[IX(i + 1, j)] - p[IX(i - 1, j)]) * Size;
\* velocY[IX(i, j)] -= 0.5f * (p[IX(i, j + 1)] - p[IX(i, j - 1)]) * Size
ProjectGradientCell(w, i, j) ==
    [w EXCEPT !.velocX = Put(w.velocX, i, j,
                             At(w.velocX, i, j)
                               - FMul(FMul(Half, At(w.p, i + 1, j) - At(w.p, i - 1, j)),
                                      ToFloat(Size))),
              !.velocY = Put(w.velocY, i, j,
                             At(w.velocY, i, j)
                               - FMul(FMul(Half, At(w.p, i, j + 1) - At(w.p, i, j - 1)),
                                      ToFloat(Size)))]

\* Project's second pair of loops, from the k-th interior cell on.
RECURSIVE ProjectGradientFrom(_, _)
ProjectGradientFrom(w, k) ==
    IF Eval(w) /\ k <= Len(InteriorCells)
    THEN ProjectGradientFrom(
             ProjectGradientCell(w, InteriorCells[k][1], InteriorCells[k][2]), k + 1)
    ELSE w

\* SetBoundary(1, velocX); SetBoundary(2, velocY)
ProjectBoundary(w) ==
    [w EXCEPT !.velocX = SetBoundary(1, w.velocX),
              !.velocY = SetBoundary(2, w.velocY)]

\* void AFluidGrid::Project(velocX, velocY, p, div): the four arrays after the call.
Project(velocX, velocY, p, div) ==
    ProjectBoundary(
        ProjectGradientFrom(
            ProjectSolve(
                ProjectDivergenceFrom(
                    [velocX |-> velocX, velocY |-> velocY, p |-> p, div |-> div], 1)),
            1))

\* ------------------------------------------------------------------ Advect

\* A clamp that lets a coordinate reach the last column; C10 must tell it from
\* the source's.
ClampTraceToLastCell(x) == Clamp(x, Half, ToFloat(Size - 1) + Half)

\* The clamp of a traced-back coordinate: FMath::Clamp(x, 0.5f, Nfloat + 0.5f)
ClampTrace(x) == Clamp(x, Half, ToFloat(Size - 2) + Half)

\* float x = i - dtx * velocX[IX(i, j)], clamped (and y likewise, from j and velocY)
TraceBack(i, veloc, dt) ==
    ClampTrace(ToFloat(i) - FMul(FMul(dt, ToFloat(Size - 2)), veloc))

\* The sample at the traced-back point (x, y): the four lattice points around
\* it and the interpolation weights.
Sample(x, y) ==
    [x |-> x, y |-> y,
     i0 |-> FloorToInt(x), i1 |-> FloorToInt(x) + 1,
     j0 |-> FloorToInt(y), j1 |-> FloorToInt(y) + 1,
     s1 |-> x - ToFloat(FloorToInt(x)), s0 |-> One - (x - ToFloat(FloorToInt(x))),
     t1 |-> y - ToFloat(FloorToInt(y)), t0 |-> One - (y - ToFloat(FloorToInt(y)))]

\* The back-traced sample of interior cell (i, j).
BackTrace(i, j, velocX, velocY, dt) ==
    Sample(TraceBack(i, At(velocX, i, j), dt), TraceBack(j, At(velocY, i, j), dt))

\* An interpolation with the weights of the two columns exchanged; C3 must tell
\* it from the source's.
InterpolateExchanged(d0, s) ==
    FMul(s.s1, FMul(s.t0, At(d0, s.i0, s.j0)) + FMul(s.t1, At(d0, s.i0, s.j1)))
      + FMul(s.s0, FMul(s.t0, At(d0, s.i1, s.j0)) + FMul(s.t1, At(d0, s.i1, s.j1)))

\* The bilinear interpolation of d0 at sample s.
Interpolate(d0, s) ==
    FMul(s.s0, FMul(s.t0, At(d0, s.i0, s.j0)) + FMul(s.t1, At(d0, s.i0, s.j1)))
      + FMul(s.s1, FMul(s.t0, At(d0, s.i1, s.j0)) + FMul(s.t1, At(d0, s.i1, s.j1)))

\* d[IX(i, j)] = the interpolation of d0 at the back-traced sample of (i, j)
AdvectCell(d, d0, velocX, velocY, dt, i, j) ==
    Put(d, i, j, Interpolate(d0, BackTrace(i, j, velocX, velocY, dt)))

\* Advect's two loops, from the k-th interior cell on.
RECURSIVE AdvectFrom(_, _, _, _, _, _)
AdvectFrom(d, d0, velocX, velocY, dt, k) ==
    IF Eval(d) /\ k <= Len(InteriorCells)
    THEN AdvectFrom(AdvectCell(d, d0, velocX, velocY, dt,
                               InteriorCells[k][1], InteriorCells[k][2]),
                    d0, velocX, velocY, dt, k + 1)
    ELSE d

\* void AFluidGrid::Advect(int32 b, d, d0, velocX, velocY, float dt): d after the call.
Advect(b, d, d0, velocX, velocY, dt) ==
    SetBoundary(b, AdvectFrom(d, d0, velocX, velocY, dt, 1))

\* The samples one Advect call takes, one per interior cell.
AdvectSamples(velocX, velocY, dt) ==
    [k \in DOMAIN InteriorCells |->
        BackTrace(InteriorCells[k][1], InteriorCells[k][2], velocX, velocY, dt)]

\* ------------------------------------------------------ forcing and the step

\* void AFluidGrid::AddDensity(int32 x, int32 y, float amount)
AddDensity(D, x, y, amount) == Put(D, x, y, At(D, x, y) + amount)

\* void AFluidGrid::AddVelocity(int32 x, int32 y, float amountX, float amountY),
\* on one of the two arrays.
AddVelocity(V, x, y, amount) == Put(V, x, y, At(V, x, y) + amount)

\* StepSimulation's statements, each a map of its arrays
\* s = [Density, Vx, Vy, Vx0, Vy0, Density0], to which `trace` adds a record of
\* the arrays the Advect calls are given.

\* AddDensity(Size / 2, Size / 2, 100.0f); AddVelocity(Size / 2, Size / 2, 1.0f, 0.0f)
StepForce(s) ==
    [s EXCEPT !.Density = AddDensity(s.Density, Size \div 2, Size \div 2, ToFloat(100)),
              !.Vx = AddVelocity(s.Vx, Size \div 2, Size \div 2, ToFloat(1)),
              !.Vy = AddVelocity(s.Vy, Size \div 2, Size \div 2, 0)]

\* TArray<float> Vx0 = Vx; Vy0 = Vy; Density0 = Density
StepSnapshot(s) ==
    [s EXCEPT !.Vx0 = s.Vx, !.Vy0 = s.Vy, !.Density0 = s.Density]

\* Diffuse(1, Vx, Vx0, Viscosity, Dt); Diffuse(2, Vy, Vy0, Viscosity, Dt)
StepDiffuseVelocity(s) ==
    [s EXCEPT !.Vx = Diffuse(1, s.Vx, s.Vx0, Viscosity, Dt),
              !.Vy = Diffuse(2, s.Vy, s.Vy0, Viscosity, Dt)]

\* The arrays after Project(Vx, Vy, Vx0, Vy0), from Project's result w.
StepProjected(s, w) ==
    [s EXCEPT !.Vx = w.velocX, !.Vy = w.velocY, !.Vx0 = w.p, !.Vy0 = w.div]

\* Project(Vx, Vy, Vx0, Vy0)
StepProject(s) == StepProjected(s, Project(s.Vx, s.Vy, s.Vx0, s.Vy0))

\* Advect(1, Vx, Vx0, Vx0, Vy0, Dt); Advect(2, Vy, Vy0, Vx0, Vy0, Dt); the
\* trace records the velocity on entry and the d0 and the carriers of each call.
StepAdvectVelocity(s) ==
    [s EXCEPT !.Vx = Advect(1, s.Vx, s.Vx0, s.Vx0, s.Vy0, Dt),
              !.Vy = Advect(2, s.Vy, s.Vy0, s.Vx0, s.Vy0, Dt),
              !.trace.velX = s.Vx, !.trace.velY = s.Vy,
              !.trace.d0X = s.Vx0, !.trace.d0Y = s.Vy0,
              !.trace.carrierX = s.Vx0, !.trace.carrierY = s.Vy0]

\* Diffuse(0, Density, Density0, Diffusion, Dt), Diffusion holding `diffusion`
StepDiffuseDensity(s, diffusion) ==
    [s EXCEPT !.Density = Diffuse(0, s.Density, s.Density0, diffusion, Dt)]

\* A density advection that takes the diffused Density as its source d0 instead
\* of the snapshot Density0; C9 must tell it from the source's.
StepAdvectDiffusedDensity(s) ==
    [s EXCEPT !.Density = Advect(0, s.Density, s.Density, s.Vx, s.Vy, Dt),
              !.trace.diffused = s.Density]

\* Advect(0, Density, Density0, Vx, Vy, Dt); the trace records the Density
\* that Diffuse left, which the call is given as d.
StepAdvectDensity(s) ==
    [s EXCEPT !.Density = Advect(0, s.Density, s.Density0, s.Vx, s.Vy, Dt),
              !.trace.diffused = s.Density]

NoTrace == [velX |-> <<>>, velY |-> <<>>, d0X |-> <<>>, d0Y |-> <<>>,
            carrierX |-> <<>>, carrierY |-> <<>>, diffused |-> <<>>]

\* StepSimulation's arrays on entry: the members, and the locals not yet made.
StepState ==
    [Density |-> Density, Vx |-> Vx, Vy |-> Vy,
     Vx0 |-> <<>>, Vy0 |-> <<>>, Density0 |-> <<>>, trace |-> NoTrace]

\* StepSimulation's velocity half: the forcing, the snapshots, and the
\* velocity's Diffuse, Project, Advect, Project.
StepVelocity ==
    StepProject(
      StepAdvectVelocity(
        StepProject(
          StepDiffuseVelocity(
            StepSnapshot(
              StepForce(StepState))))))

\* StepSimulation's density half, on the arrays s the velocity half leaves.
StepDensity(s, diffusion) == StepAdvectDensity(StepDiffuseDensity(s, diffusion))

\* void AFluidGrid::StepSimulation(), up to its UpdateRenderTarget call, with
\* the member Diffusion holding `diffusion`.
StepResult(diffusion) == StepDensity(StepVelocity, diffusion)

\* ------------------------------------------------------- out-of-range access

\* The offsets SetBoundary reads or writes.
SetBoundaryOffsets ==
    UNION {{IX(i, 0), IX(i, 1), IX(i, Size - 1), IX(i, Size - 2),
            IX(0, i), IX(1, i), IX(Size - 1, i), IX(Size - 2, i)} : i \in 1..(Size - 2)}
      \cup {IX(0, 0), IX(1, 0), IX(0, 1),
            IX(0, Size - 1), IX(1, Size - 1), IX(0, Size - 2),
            IX(Size - 1, 0), IX(Size - 2, 0), IX(Size - 1, 1),
            IX(Size - 1, Size - 1), IX(Size - 2, Size - 1), IX(Size - 1, Size - 2)}

\* The offsets the interior loops of LinearSolve and Project read or write.
InteriorOffsets ==
    UNION {{IX(InteriorCells[k][1], InteriorCells[k][2]),
            IX(InteriorCells[k][1] + 1, InteriorCells[k][2]),
            IX(InteriorCells[k][1] - 1, InteriorCells[k][2]),
            IX(InteriorCells[k][1], InteriorCells[k][2] + 1),
            IX(InteriorCells[k][1], InteriorCells[k][2] - 1)} : k \in DOMAIN InteriorCells}

\* for (int32 i = 0; i < FMath::Min(Size, 10); i++) UE_LOG(..., x[i]): the
\* offsets Diffuse and LinearSolve read to log them.
LoggedValues == 10
LoggedOffsets == 0..((IF Size < LoggedValues THEN Size ELSE LoggedValues) - 1)

\* The offsets StepSimulation reads or writes before its UpdateRenderTarget
\* call (Advect's samples lie among those of the loops).
StepOffsets ==
    {IX(Size \div 2, Size \div 2)} \cup InteriorOffsets \cup SetBoundaryOffsets
      \cup LoggedOffsets

\* The offsets UpdateRenderTarget reads.
RenderOffsets == {IX(x, y) : x \in 0..(Size - 1), y \in 0..(Size - 1)}

\* TArray::operator[] with an offset outside the array: undefined behaviour
\* (a range-check abort in checked builds, a wild access otherwise).
OutOfRange(offsets, f) == \E k \in offsets : k < 0 \/ k >= Len(f)

\* What the fields may hold after a wild access.
GarbageVals == {0, -One}

\* The outcomes of undefined behaviour: the process aborts, or runs on with
\* fields that hold anything.  Either way the model follows it no further.
Undefined ==
    /\ pc' \in {"crashed", "corrupt"}
    /\ IF pc' = "crashed"
       THEN UNCHANGED <<Density, Vx, Vy>>
       ELSE \E g \in GarbageVals :
               /\ Density' = [k \in DOMAIN Density |-> g]
               /\ Vx' = [k \in DOMAIN Vx |-> g]
               /\ Vy' = [k \in DOMAIN Vy |-> g]

\* ------------------------------------------------------------- the renderer

NoCmd == [ColorData |-> <<>>, LocalSize |-> -1, reads |-> "nothing"]

\* FLinearColor Color of one density value: <<R, G, B, A>>.
Color(Value) ==
    LET Intensity == Clamp(Value, 0, One)
    IN  <<Intensity, 0, One - Intensity, One>>

\* TArray<FLinearColor> ColorData as UpdateRenderTarget's loops fill it from D.
ColorDataOf(D) ==
    [k \in 1..(Size * Size) |-> Color(At(D, (k - 1) % Size, (k - 1) \div Size))]

\* A render command whose lambda captures `this` and reads Density when it
\* runs; C5 must tell it from the source's.
RenderCommandByReference(D) ==
    [ColorData |-> <<>>, LocalSize |-> Size, reads |-> "Density"]

\* The render command UpdateRenderTarget enqueues: the lambda captures
\* ColorData and LocalSize by value; `reads` names the storage its body reads.
RenderCommand(D) ==
    [ColorData |-> ColorDataOf(D), LocalSize |-> Size, reads |-> "ColorData"]

\* What the body of a command passes to UpdateTexture2D when it runs: the
\* array the command holds, or for a command that reads the member Density,
\* what Density holds at that moment.
Payload(cmd) ==
    IF cmd.reads = "ColorData" THEN cmd.ColorData ELSE Density

\* void AFluidGrid::UpdateRenderTarget() on density D: the queue after it.
UpdateRenderTarget(queue, D) ==
    IF ~RenderTarget THEN queue ELSE Append(queue, RenderCommand(D))

\* --------------------------------------------------------------- the actor

NoCall == [op |-> "none"]
NoTwin == <<>>

\* float Dt = 10.1f
DefaultDt == 10100
\* float Diffusion = 1
DefaultDiffusion == 1000
\* float Viscosity = 1
DefaultViscosity == 1000

\* Values the editable properties are given.
DtVals == {DefaultDt, Half}
DiffusionVals == {DefaultDiffusion, 0}
SizeVals == 0..(MaxN + 1)
\* World positions <<X, Y>> DeprojectScreenPositionToWorld yields while the
\* left mouse button is down (floats), and the button not being down.
ClickVals == {<<-(3 * Half), 3 * Half>>, <<3 * Half, ToFloat(MaxN + 5)>>}
NoClick == <<>>

\* AFluidGrid::AFluidGrid() with Size holding n: the fields zeroed, n*n long;
\* nothing has begun.
Constructed(n) ==
    /\ Size = n
    /\ Density = Zeroed(n * n)
    /\ Vx = Zeroed(n * n)
    /\ Vy = Zeroed(n * n)
    /\ Viscosity = DefaultViscosity
    /\ RenderTarget = FALSE
    /\ pc = "constructed"
    /\ ticks = 0
    /\ forced = FALSE
    /\ trace = NoTrace
    /\ twin = NoTwin
    /\ renderQueue = <<>>
    /\ rtCmd = NoCmd
    /\ texture = <<>>

\* The actor as spawned: constructed with one of the sides the model builds
\* (the source's default is 256), its properties Dt, Diffusion and BaseMaterial
\* as the level sets them.
Init ==
    /\ \E n \in 3..MaxN : Constructed(n)
    /\ Dt \in DtVals
    /\ Diffusion \in DiffusionVals
    /\ BaseMaterial \in BOOLEAN
    /\ call = NoCall

\* The property system (the editor's details panel, a level being loaded)
\* writes the EditAnywhere property Size of the constructed actor, before play
\* begins; nothing else is touched.
EditSize ==
    /\ pc = "constructed"
    /\ \E n \in SizeVals \ {Size} : Size' = n
    /\ UNCHANGED <<Density, Vx, Vy, Dt, Diffusion, Viscosity, hostVars, renderVars, call>>

\* void AFluidGrid::BeginPlay()
BeginPlay ==
    /\ pc = "constructed"
    /\ pc' = "playing"
    /\ RenderTarget' = BaseMaterial
    /\ UNCHANGED <<solverVars, BaseMaterial, ticks, forced, trace, twin, renderVars, call>>

\* HandleInput's cell for a pointer that deprojects to world position W:
\* FMath::Clamp(static_cast<int32>(WorldPosition.X), 0, Size - 1), Y likewise.
GridCell(W) ==
    <<Clamp(CastInt32(W[1]), 0, Size - 1), Clamp(CastInt32(W[2]), 0, Size - 1)>>

\* void AFluidGrid::HandleInput() on density D, the left mouse button being
\* down with the pointer at W, or not down (W = NoClick).
HandleInput(D, W) ==
    IF W = NoClick THEN D
    ELSE AddDensity(D, GridCell(W)[1], GridCell(W)[2], ToFloat(100))

\* The offset HandleInput reads and writes in Density.
HandleInputOffsets(W) ==
    IF W = NoClick THEN {} ELSE {IX(GridCell(W)[1], GridCell(W)[2])}

\* The offsets StepSimulation and the UpdateRenderTarget calls read or write
\* in Density.
TickOffsets == StepOffsets \cup (IF RenderTarget THEN RenderOffsets ELSE {})

\* What a twin solver holds after a Tick whose StepSimulation left it r.
TwinFields(r, W) ==
    [Density |-> HandleInput(r.Density, W), Vx |-> r.Vx, Vy |-> r.Vy,
     diffused |-> r.trace.diffused]

\* void AFluidGrid::Tick(float DeltaTime): StepSimulation() (which ends with an
\* UpdateRenderTarget() call), UpdateRenderTarget(), HandleInput().
Tick ==
    /\ pc = "playing"
    /\ ticks < MaxTicks
    /\ ticks' = ticks + 1
    /\ IF OutOfRange(TickOffsets, Density) \/ OutOfRange(StepOffsets, Vx)
          \/ OutOfRange(StepOffsets, Vy)
       THEN /\ Undefined
            /\ UNCHANGED <<forced, trace, twin, renderQueue>>
       ELSE \E r \in {StepResult(Diffusion)} :
            \E others \in {[d \in DiffusionVals \ {Diffusion} |-> StepResult(d)]} :
            \E W \in ClickVals \cup {NoClick} :
                IF OutOfRange(HandleInputOffsets(W), r.Density)
                THEN /\ Undefined
                     /\ UNCHANGED <<forced, trace, twin, renderQueue>>
                ELSE /\ Density' = HandleInput(r.Density, W)
                     /\ Vx' = r.Vx
                     /\ Vy' = r.Vy
                     /\ trace' = r.trace
                     /\ twin' = [d \in DOMAIN others |-> TwinFields(others[d], W)]
                     /\ renderQueue' = UpdateRenderTarget(
                                           UpdateRenderTarget(renderQueue, r.Density),
                                           r.Density)
                     /\ forced' = (forced \/ W # NoClick)
                     /\ UNCHANGED pc
    /\ UNCHANGED <<Size, Dt, Diffusion, Viscosity, BaseMaterial, RenderTarget,
                   rtCmd, texture, call>>

\* The render thread takes the next command off its queue and begins its body.
RenderBegin ==
    /\ pc \notin {"crashed", "corrupt"}
    /\ rtCmd = NoCmd
    /\ renderQueue # <<>>
    /\ rtCmd' = Head(renderQueue)
    /\ renderQueue' = Tail(renderQueue)
    /\ UNCHANGED <<solverVars, hostVars, texture, call>>

\* The command's body ends: UpdateTexture2D has read its source data.
RenderEnd ==
    /\ pc \notin {"crashed", "corrupt"}
    /\ rtCmd # NoCmd
    /\ texture' = Payload(rtCmd)
    /\ rtCmd' = NoCmd
    /\ UNCHANGED <<solverVars, hostVars, renderQueue, call>>

Next ==
    \/ EditSize
    \/ BeginPlay
    \/ Tick
    \/ RenderBegin
    \/ RenderEnd

Spec == Init /\ [][Next]_vars

\* ============================================================ the actor's claims

\* The actor is alive: no undefined behaviour has ended the run.
Alive == pc \in {"constructed", "playing"}

\* C2: from a freshly constructed solver, as long as no caller has called
\* AddDensity or AddVelocity, every cell of Density is 0 after any number of
\* StepSimulation invocations.
C2_DensityStaysZero ==
    (Alive /\ ~forced) => \A k \in DOMAIN Density : Density[k] = 0

\* C4: a grid side below 3 is rejected at construction: no Tick (hence no
\* StepSimulation, Diffuse, Project, Advect, LinearSolve or SetBoundary)
\* executes in a state where Size < 3.
C4_SmallSizeRejected == [][ticks' # ticks => Size >= 3]_vars

\* C5: the body of a render command reads only the snapshot the command
\* holds: whatever the game thread does while the command executes (a later
\* Tick's StepSimulation or HandleInput), the data the body reads is unchanged.
C5_SnapshotNeverRaces ==
    [][(rtCmd # NoCmd /\ rtCmd' = rtCmd) => Payload(rtCmd)' = Payload(rtCmd)]_vars

\* C5's case: a command is executing on the render thread and the game thread
\* has since changed Density to something the command's snapshot does not show.
C5_Witness ==
    /\ rtCmd # NoCmd
    /\ Alive
    /\ rtCmd.LocalSize = Size
    /\ Len(Density) = Size * Size
    /\ rtCmd.ColorData # ColorDataOf(Density)

\* C6: in every state after construction, whatever the editable Size holds,
\* Density, Vx and Vy each have exactly Size*Size elements.
C6_FieldsHaveSizeSquared ==
    Alive => /\ Len(Density) = Size * Size
             /\ Len(Vx) = Size * Size
             /\ Len(Vy) = Size * Size

\* C7: at StepSimulation's two velocity Advect calls, the source field d0 and
\* the carrier fields velocX/velocY hold the velocity that the preceding
\* Diffuse and Project calls produced.
C7_SelfAdvection ==
    (Alive /\ trace # NoTrace) =>
        /\ trace.d0X = trace.velX
        /\ trace.d0Y = trace.velY
        /\ trace.carrierX = trace.velX
        /\ trace.carrierY = trace.velY

\* C9: the fields after StepSimulation do not depend on Diffusion: solvers
\* that took the same step from the same state, differing only in Diffusion,
\* hold the same Density, Vx and Vy.
C9_DiffusionIrrelevant ==
    (Alive /\ twin # NoTwin) =>
        \A d \in DOMAIN twin :
            /\ twin[d].Density = Density
            /\ twin[d].Vx = Vx
            /\ twin[d].Vy = Vy

\* C9's case: a step in which what Diffuse(0, Density, Density0, Diffusion, Dt)
\* left did depend on Diffusion.
C9_Witness ==
    /\ Alive
    /\ twin # NoTwin
    /\ \E d \in DOMAIN twin : twin[d].diffused # trace.diffused

\* ===================================================== single routines, called
\* SetBoundary and Advect called once on a constructed solver, on arrays of the
\* solver's size that hold given contents.

\* Contents of an n*n array: zero, a different value in every cell, one cell
\* that holds 1 or -1.5 among zeros, and the same value in every cell.
Ramp(n) == [k \in 1..(n * n) |-> k * One]
OneHot(n, c, v) == [k \in 1..(n * n) |-> IF k = c THEN v ELSE 0]
Uniform(n, v) == [k \in 1..(n * n) |-> v]
FieldVals(n) ==
    {Zeroed(n * n), Ramp(n)} \cup {OneHot(n, c, v) : c \in 1..(n * n), v \in {One, -(3 * Half)}}

\* Velocities, in cells per unit of time: still, slow and fast, both ways; the
\* same in every cell, or fast one way, still and fast the other way by turns.
VelocityVals == {0, 300, -300, ToFloat(5000), -ToFloat(5000)}
Alternating(n) == [k \in 1..(n * n) |-> ((k % 3) - 1) * ToFloat(5000)]
VelocityFields(n) == {Uniform(n, v) : v \in VelocityVals} \cup {Alternating(n)}

\* The field kinds b: 0 density, 1 x-velocity, 2 y-velocity.
Kinds == 0..2

\* A constructed solver about to be called with `c`.
Called(n, c) ==
    /\ Constructed(n)
    /\ Dt = DefaultDt
    /\ Diffusion = DefaultDiffusion
    /\ BaseMaterial = FALSE
    /\ call = c

InitBoundary ==
    \E n \in 3..MaxN, b \in Kinds :
        \E x \in FieldVals(n) :
            Called(n, [op |-> "SetBoundary", b |-> b, x |-> x, returned |-> FALSE])

\* SetBoundary(b, x)
CallSetBoundary ==
    /\ call.op = "SetBoundary"
    /\ ~call.returned
    /\ call' = [call EXCEPT !.x = SetBoundary(call.b, call.x), !.returned = TRUE]
    /\ UNCHANGED <<solverVars, hostVars, renderVars>>

NextBoundary == CallSetBoundary

SpecBoundary == InitBoundary /\ [][NextBoundary]_vars

\* C1: after SetBoundary(b, x) returns, for every interior j: if b = 1 then
\* x[0,j] = -x[1,j] and x[N-1,j] = -x[N-2,j]; if b = 0 then x[0,j] = x[1,j]
\* and x[N-1,j] = x[N-2,j].
C1_EdgesMirrorNeighbours ==
    (call.op = "SetBoundary" /\ call.returned) =>
        \A j \in 1..(Size - 2) :
            /\ call.b = 1 => /\ At(call.x, 0, j) = -At(call.x, 1, j)
                             /\ At(call.x, Size - 1, j) = -At(call.x, Size - 2, j)
            /\ call.b = 0 => /\ At(call.x, 0, j) = At(call.x, 1, j)
                             /\ At(call.x, Size - 1, j) = At(call.x, Size - 2, j)

InitAdvect ==
    \E n \in 3..MaxN, b \in Kinds, dt \in DtVals :
        \E d0 \in FieldVals(n), velocX \in VelocityFields(n), velocY \in VelocityFields(n) :
            Called(n, [op |-> "Advect", b |-> b, d |-> Zeroed(n * n), d0 |-> d0,
                       velocX |-> velocX, velocY |-> velocY, dt |-> dt,
                       samples |-> <<>>, returned |-> FALSE])

\* The offsets at which Advect reads d0 for the samples ss.
SampleOffsets(ss) ==
    UNION {{IX(ss[k].i0, ss[k].j0), IX(ss[k].i0, ss[k].j1),
            IX(ss[k].i1, ss[k].j0), IX(ss[k].i1, ss[k].j1)} : k \in DOMAIN ss}

\* Advect(b, d, d0, velocX, velocY, dt); `samples` records the samples it took.
\* A sample outside d0 is undefined behaviour: d then holds anything.
CallAdvect ==
    /\ call.op = "Advect"
    /\ ~call.returned
    /\ \E ss \in {AdvectSamples(call.velocX, call.velocY, call.dt)} :
         IF OutOfRange(SampleOffsets(ss), call.d0)
         THEN \E g \in GarbageVals :
                call' = [call EXCEPT !.d = Uniform(Size, g), !.samples = ss,
                                     !.returned = TRUE]
         ELSE call' = [call EXCEPT !.d = Advect(call.b, call.d, call.d0, call.velocX,
                                                call.velocY, call.dt),
                                   !.samples = ss, !.returned = TRUE]
    /\ UNCHANGED <<solverVars, hostVars, renderVars>>

NextAdvect == CallAdvect

SpecAdvect == InitAdvect /\ [][NextAdvect]_vars

\* An Advect call through a velocity that is zero at every cell has returned.
StillAdvectReturned ==
    /\ call.op = "Advect"
    /\ call.returned
    /\ call.velocX = Zeroed(Size * Size)
    /\ call.velocY = Zeroed(Size * Size)

\* C3 as stated: Advect through a velocity that is zero at every cell leaves
\* the field unchanged: after the call d equals d0 at every one of the N*N cells.
C3_StillAdvectCopiesAll == StillAdvectReturned => call.d = call.d0

\* C3 as the code has it: Advect through a velocity that is zero at every cell
\* leaves d equal to d0 at every interior cell (1 <= i, j <= N-2); the boundary
\* cells are then set by SetBoundary(b, d) from the interior.
C3_StillAdvectCopiesInterior ==
    StillAdvectReturned =>
        /\ \A i \in 1..(Size - 2), j \in 1..(Size - 2) :
               At(call.d, i, j) = At(call.d0, i, j)
        /\ call.d = SetBoundary(call.b, call.d)

\* C3's case: a still Advect of a field every cell of which differs from its
\* neighbours has returned.
C3_Witness == StillAdvectReturned /\ call.d0 = Ramp(Size) /\ call.d # call.d0

\* C10: each back-traced sample of Advect satisfies 0 <= i0 < i1 <= N-1 and
\* 0 <= j0 < j1 <= N-1, and every linear offset Advect uses (of a sample, of a
\* cell it writes, of SetBoundary) is in [0, N*N).
C10_SamplesInsideGrid ==
    (call.op = "Advect" /\ call.returned) =>
        /\ \A k \in DOMAIN call.samples :
              /\ 0 <= call.samples[k].i0
              /\ call.samples[k].i0 < call.samples[k].i1
              /\ call.samples[k].i1 <= Size - 1
              /\ 0 <= call.samples[k].j0
              /\ call.samples[k].j0 < call.samples[k].j1
              /\ call.samples[k].j1 <= Size - 1
        /\ \A o \in SampleOffsets(call.samples) \cup InteriorOffsets \cup SetBoundaryOffsets :
              0 <= o /\ o < Size * Size

\* C10's case: an Advect has returned that traced one cell back beyond the low
\* side of the grid, another beyond the high side, and one to a point strictly
\* between lattice points.
C10_Witness ==
    /\ call.op = "Advect"
    /\ call.returned
    /\ \E k \in DOMAIN call.samples : call.samples[k].x = Half
    /\ \E k \in DOMAIN call.samples : call.samples[k].x = ToFloat(Size - 2) + Half
    /\ \E k \in DOMAIN call.samples : call.samples[k].t1 \notin {0, Half}

\* ===================================================== LinearSolve, step by step
\* One LinearSolve call on a constructed solver, taken one loop step at a
\* time: `at` is the call's position, `t` the loop counter, `events` what it
\* has done so far, `x` the iterate (`given` the x it was called with).

\* The coefficients StepSimulation's callers pass as <<a, c>>: Project's
\* (1, 6), Diffuse's (a, 1 + 4a) for the default Dt and Diffusion, and for a = 0.
CoefficientVals(n) ==
    {<<ToFloat(1), ToFloat(6)>>, <<0, One>>,
     <<FMul(FMul(FMul(DefaultDt, DefaultDiffusion), ToFloat(n - 2)), ToFloat(n - 2)),
       One + FMul(ToFloat(4),
                  FMul(FMul(FMul(DefaultDt, DefaultDiffusion), ToFloat(n - 2)),
                       ToFloat(n - 2)))>>}

InitSolve ==
    \E n \in 3..MaxN, b \in Kinds :
        \E x \in {Zeroed(n * n), Ramp(n)}, x0 \in FieldVals(n), ac \in CoefficientVals(n) :
            Called(n, [op |-> "LinearSolve", b |-> b, x |-> x, x0 |-> x0,
                       a |-> ac[1], c |-> ac[2], given |-> x,
                       t |-> 0, at |-> "loop", events |-> <<>>])

\* The loop test passes and the body's two inner loops run: one interior sweep.
SolveSweep ==
    /\ call.op = "LinearSolve"
    /\ call.at = "loop"
    /\ LoopCond(call.t)
    /\ call' = [call EXCEPT !.x = Sweep(call.x, call.x0, call.a, FDiv(One, call.c)),
                            !.at = "swept",
                            !.events = Append(call.events, "Sweep")]
    /\ UNCHANGED <<solverVars, hostVars, renderVars>>

\* The body's last statement, SetBoundary(b, x), and the loop's t++.
SolveSetBoundary ==
    /\ call.op = "LinearSolve"
    /\ call.at = "swept"
    /\ call' = [call EXCEPT !.x = SetBoundary(call.b, call.x),
                            !.t = call.t + 1,
                            !.at = "loop",
                            !.events = Append(call.events, "SetBoundary")]
    /\ UNCHANGED <<solverVars, hostVars, renderVars>>

\* The loop test fails: the call logs its first values and returns.
SolveReturn ==
    /\ call.op = "LinearSolve"
    /\ call.at = "loop"
    /\ ~LoopCond(call.t)
    /\ call' = [call EXCEPT !.at = "returned"]
    /\ UNCHANGED <<solverVars, hostVars, renderVars>>

NextSolve ==
    \/ SolveSweep
    \/ SolveSetBoundary
    \/ SolveReturn

SpecSolve == InitSolve /\ [][NextSolve]_vars

\* C8: LinearSolve(b, x, x0, a, c) terminates after exactly N full interior
\* sweeps, each immediately followed by exactly one SetBoundary(b, x), whatever
\* the iterate: what it does is Sweep, SetBoundary by turns, t counting the
\* pairs done; it is never stuck short of returning, and on return it has done
\* N pairs and x is the N-th iterate.
C8_ExactlyNSweeps ==
    call.op = "LinearSolve" =>
        /\ \A k \in DOMAIN call.events :
              call.events[k] = IF k % 2 = 1 THEN "Sweep" ELSE "SetBoundary"
        /\ Len(call.events) = 2 * call.t + (IF call.at = "swept" THEN 1 ELSE 0)
        /\ call.t <= Size
        /\ call.at \in {"loop", "swept", "returned"}
        /\ call.at = "returned" =>
              /\ Len(call.events) = 2 * Size
              /\ call.x = LinearSolve(call.b, call.given, call.x0, call.a, call.c)

\* C8's case: a call has returned whose iterate was converged from the start
\* (every sweep and SetBoundary left it as given), after its 2N steps.
C8_Witness ==
    /\ call.op = "LinearSolve"
    /\ call.at = "returned"
    /\ call.x = call.given
    /\ call.x = Sweep(call.x, call.x0, call.a, FDiv(One, call.c))
    /\ call.x = SetBoundary(call.b, call.x)
    /\ Len(call.events) = 2 * Size

====
